---------------------------- MODULE Spec2Model ----------------------------
(***************************************************************************)
(* Model of the keyword research client of src/myseo/seo.py:               *)
(*   SimpleKeywordResearch.__init__ / _setup_client / _authenticate_oauth  *)
(*   SimpleKeywordResearch.search_keywords                                 *)
(*   SimpleKeywordResearch._extract_metrics                                *)
(*   SimpleKeywordResearch.print_summary                                   *)
(*                                                                         *)
(*   SimpleKeywordResearch.save_results, main()                            *)
(* and of the dashboard session of src/myseo/streamlit_app.py.             *)
(*                                                                         *)
(* The specifications share the variables below; each one exercises one    *)
(* operation and keeps the variables of the other operations at rest:      *)
(*   SpecCtor     construction of the client (environment -> object)       *)
(*   SpecSearch   one invocation of search_keywords, one loop turn a step  *)
(*   SpecMetrics  _extract_metrics applied to one raw idea record          *)
(*   SpecSummary  print_summary applied to one result list                 *)
(*   SpecExport   save_results calls against a clock and a file system     *)
(*   SpecMain     the script's main(): the steps above composed            *)
(*   SpecDash     the dashboard: one script run per step of a session      *)
(*                                                                         *)
(* Python values: text is a tuple of one-character strings, so that        *)
(* str.lower() and str.replace() are computed and not assumed; an optional *)
(* number is a record [tag, val] with tag "int", "none" (None / unset      *)
(* field) or "absent" (the attribute does not exist, see getattr).         *)
(***************************************************************************)
EXTENDS Integers, Sequences, FiniteSets, TLC

(* ------------------------------ bounds -------------------------------- *)
\* longest remote idea sequence explored
MaxIdeas == 4
\* largest max_results explored (the parameter is any positive int)
MaxCap == 2
\* longest result list given to print_summary
MaxSummary == 4
\* largest whole-dollar bid k checked for exact conversion of k*1,000,000
MaxWholeBid == 3

(* --------------------------- Python values ---------------------------- *)
PyNone == [tag |-> "none", val |-> 0]
PyAbsent == [tag |-> "absent", val |-> 0]
PyInt(n) == [tag |-> "int", val |-> n]

\* bool(v) for an optional number: None, a missing attribute and 0 are falsy
Truthy(v) == v.tag = "int" /\ v.val # 0

\* an environment variable: unset (os.getenv gives None) or a text
EnvUnset == [isNone |-> TRUE, s |-> <<>>]
EnvText(t) == [isNone |-> FALSE, s |-> t]

\* bool(os.getenv(X)): None and "" are falsy
EnvTruthy(e) == ~e.isNone /\ e.s # <<>>

\* os.getenv(X, ""): the default replaces only an unset variable
GetenvOrEmpty(e) == IF e.isNone THEN <<>> ELSE e.s

UpperLetters == <<"A","B","C","D","E","F","G","H","I","J","K","L","M",
                  "N","O","P","Q","R","S","T","U","V","W","X","Y","Z">>
LowerLetters == <<"a","b","c","d","e","f","g","h","i","j","k","l","m",
                  "n","o","p","q","r","s","t","u","v","w","x","y","z">>

\* str.lower() on one character
LowerChar(c) ==
    IF \E i \in 1..26 : UpperLetters[i] = c
    THEN LowerLetters[CHOOSE i \in 1..26 : UpperLetters[i] = c]
    ELSE c

\* str.lower()
StrLower(s) == [i \in 1..Len(s) |-> LowerChar(s[i])]

\* str.replace(ch, '')
StrRemove(s, ch) == SelectSeq(s, LAMBDA c : c # ch)

(* ----------------------- KeywordPlanCompetitionLevel ------------------ *)
\* the remote enum: value 0 (UNSPECIFIED) is what an unset field reads as
CompetitionNames == <<"UNKNOWN", "LOW", "MEDIUM", "HIGH">>
CompetitionName(v) == IF v = 0 THEN "UNSPECIFIED" ELSE CompetitionNames[v]

(* --------------------------- _extract_metrics ------------------------- *)
\* the float x / 1_000_000 kept exactly: units + micros / 1,000,000
MicrosPerUnit == 1000000

MicrosToUsdPerMille(m) == [units |-> m \div 1000, micros |-> m % 1000]

MicrosToUsd(m) == [units |-> m \div MicrosPerUnit, micros |-> m % MicrosPerUnit]

\* `x if x else d` and `x or d` over an optional number
OrDefault(v, d) == IF Truthy(v) THEN v.val ELSE d

\* metrics.competition.name if metrics.competition else "UNKNOWN"
CompetitionLabel(v) == IF Truthy(v) THEN CompetitionName(v.val) ELSE "UNKNOWN"

_extract_metrics(idea) ==
    [keyword           |-> idea.text,
     search_volume     |-> OrDefault(idea.avg_monthly_searches, 0),
     competition       |-> CompetitionLabel(idea.competition),
     competition_index |-> OrDefault(idea.competition_index, 0),
     low_bid_usd       |-> MicrosToUsd(OrDefault(idea.low_top_of_page_bid_micros, 0)),
     high_bid_usd      |-> MicrosToUsd(OrDefault(idea.high_top_of_page_bid_micros, 0))]


(* ------------------------------- state -------------------------------- *)
VARIABLES
    \* process environment read by the constructor
    env_customer_id,        \* GOOGLE_ADS_CUSTOMER_ID
    env_login_customer_id,  \* GOOGLE_ADS_LOGIN_CUSTOMER_ID
    env_refresh_token,      \* GOOGLE_ADS_REFRESH_TOKEN
    env_token_path,         \* GOOGLE_ADS_CLIENT_TOKEN_PATH
    pathExists,             \* os.path.exists(token_path)
    \* SimpleKeywordResearch() under construction
    ctorPc,                 \* "start", "flow", "load", "check_id", "done", "raised"
    ctorErr,                \* the exception that left __init__, or "none"
    flowStarted,            \* InstalledAppFlow.run_local_server was called
    loadCalls,              \* calls of GoogleAdsClient.load_from_dict
    config,                 \* the dict given to load_from_dict
    kr,                     \* the object: client, customer_id, login_customer_id
    \* one invocation of search_keywords
    location, max_results, include_adult_keywords,
    ideas,                  \* what the remote service would yield, in order
    pc,                     \* "start", "request_built", "iterating", "loop_done",
                            \* "except", "returned", "raised"
    request,                \* the GenerateKeywordIdeasRequest
    calls,                  \* calls of service.generate_keyword_ideas
    pulled,                 \* elements obtained from the lazy sequence
    results,                \* the local list being built
    excKind,                \* the exception caught by the try block, or "none"
    ret,                    \* what the caller receives on return
    raised,                 \* what the caller receives as exception, or "none"
    \* _extract_metrics applied to one raw record
    rawIdea, metricsOut, normPc,
    \* print_summary applied to one list
    sumInput, sumLog, sumPc, sumErr,
    \* save_results and the file system it writes to
    clock,                  \* datetime.now(), in ticks of 1/TicksPerSecond s
    files,                  \* the files on disk: name and content
    exportLog,              \* the save_results calls made so far
    \* the script entry point main() of seo.py
    mainPc,                 \* "constructing", "searching", "summarizing",
                            \* "exporting", "caught", "returned"
    mainLog,                \* what main() itself logged
    mainExit,               \* "running", "returned" or "raised"
    \* the dashboard session (streamlit_app.py)
    env_other_required,     \* developer token, client id and secret are all set
    research_results,       \* st.session_state.research_results
    kr_instance,            \* st.session_state.kr_instance
    created,                \* successful SimpleKeywordResearch() constructions
    pendingRerun,           \* a run is due with no button pressed: the page
                            \* load, or st.rerun() in the last script run
    run                     \* what the last script run did and displayed

ctorVars == <<env_customer_id, env_login_customer_id, env_refresh_token,
              env_token_path, pathExists, ctorPc, ctorErr, flowStarted,
              loadCalls, config, kr>>
searchVars == <<location, max_results, include_adult_keywords, ideas, pc,
                request, calls, pulled, results, excKind, ret, raised>>
normVars == <<rawIdea, metricsOut, normPc>>
sumVars == <<sumInput, sumLog, sumPc, sumErr>>
exportVars == <<clock, files, exportLog>>
mainVars == <<mainPc, mainLog, mainExit>>
dashVars == <<env_other_required, research_results, kr_instance, created,
              pendingRerun, run>>
appVars == <<exportVars, mainVars, dashVars>>
vars == <<ctorVars, searchVars, normVars, sumVars, appVars>>

(* ------------------------- raw idea records --------------------------- *)
RawIdea(t, v, c, ci, lo, hi) ==
    [text |-> t, avg_monthly_searches |-> v, competition |-> c,
     competition_index |-> ci, low_top_of_page_bid_micros |-> lo,
     high_top_of_page_bid_micros |-> hi]

\* a record of which the remote service set no metric at all
UnsetIdea == RawIdea("kw0", PyNone, PyNone, PyAbsent, PyNone, PyNone)

\* the sample volumes, competition values and bids a raw record is built of
RawVolumes == {PyNone, PyInt(0), PyInt(500), PyInt(2000)}
RawCompetitions == {PyNone} \cup {PyInt(v) : v \in 0..4}
RawIndexes == {PyAbsent, PyNone, PyInt(0), PyInt(45)}
RawBids == {PyNone, PyInt(0), PyInt(500000)}
               \cup {PyInt(k * MicrosPerUnit) : k \in 1..MaxWholeBid}
               \cup {PyInt(2 * MicrosPerUnit + 500000)}

RawIdeas ==
    {RawIdea("kw", v, c, ci, lo, hi) :
        v \in RawVolumes, c \in RawCompetitions, ci \in RawIndexes,
        lo \in RawBids, hi \in {PyNone, PyInt(0), PyInt(2 * MicrosPerUnit + 500000)}}

\* the records the remote sequence of a search is drawn from
IdeaPool ==
    {UnsetIdea,
     RawIdea("kw1", PyInt(500), PyInt(2), PyInt(10), PyInt(500000), PyInt(MicrosPerUnit)),
     RawIdea("kw2", PyInt(2000), PyInt(4), PyInt(90), PyInt(MicrosPerUnit),
             PyInt(2 * MicrosPerUnit + 500000))}

SeqsUpTo(S, n) == UNION {[1..k -> S] : k \in 0..n}

(* --------------------------- rest values ------------------------------ *)
NoConfig == [refresh_token |-> <<>>, login_customer_id |-> <<>>, has_login |-> FALSE]
NoObject == [client |-> "none", customer_id |-> <<>>, login_customer_id |-> <<>>]
BuiltObject == [client |-> "handle", customer_id |-> <<"1","2","3">>,
                login_customer_id |-> <<>>]
NoRequest == [customer_id |-> <<>>, language |-> "", geo_target_constants |-> <<>>,
              keyword_plan_network |-> "", keywords |-> <<>>,
              include_adult_keywords |-> FALSE]
NoReturn == [returned |-> FALSE, value |-> <<>>]
NoMetrics == _extract_metrics(UnsetIdea)

CtorAtRest ==
    /\ env_customer_id = EnvUnset /\ env_login_customer_id = EnvUnset
    /\ env_refresh_token = EnvUnset /\ env_token_path = EnvUnset
    /\ pathExists = FALSE /\ ctorPc = "rest" /\ ctorErr = "none"
    /\ flowStarted = FALSE /\ loadCalls = 0 /\ config = NoConfig
    /\ kr = BuiltObject

SearchAtRest ==
    /\ location = <<>> /\ max_results = 1 /\ include_adult_keywords = FALSE
    /\ ideas = <<>> /\ pc = "rest" /\ request = NoRequest /\ calls = 0
    /\ pulled = 0 /\ results = <<>> /\ excKind = "none" /\ ret = NoReturn
    /\ raised = "none"

NormAtRest == rawIdea = UnsetIdea /\ metricsOut = NoMetrics /\ normPc = "rest"

SumAtRest == sumInput = <<>> /\ sumLog = <<>> /\ sumPc = "rest" /\ sumErr = "none"

\* session_state.research_results: None, or the list a search returned
ResultsNone == [isNone |-> TRUE, list |-> <<>>]
ResultsList(l) == [isNone |-> FALSE, list |-> l]

\* a script run of the dashboard that has not happened
NotComputed == [computed |-> FALSE, divisor |-> 0, value |-> 0]
NoRun == [click |-> "none", api_ready |-> FALSE, search |-> "not_called",
          searched_on |-> NoObject, returned |-> <<>>, buttons |-> {},
          shown |-> ResultsNone, avg_volume |-> NotComputed,
          avg_bid |-> NotComputed, error |-> "none"]

ExportAtRest == clock = 0 /\ files = {} /\ exportLog = <<>>
MainAtRest == mainPc = "rest" /\ mainLog = <<>> /\ mainExit = "running"
DashAtRest ==
    /\ env_other_required = FALSE /\ research_results = ResultsNone
    /\ kr_instance = NoObject /\ created = 0 /\ pendingRerun = FALSE
    /\ run = NoRun
AppAtRest == ExportAtRest /\ MainAtRest /\ DashAtRest

(* ======================= SpecMetrics: _extract_metrics ================ *)
InitMetrics ==
    /\ CtorAtRest /\ SearchAtRest /\ SumAtRest /\ AppAtRest
    /\ rawIdea \in RawIdeas
    /\ metricsOut = NoMetrics
    /\ normPc = "start"

ExtractMetrics ==
    /\ normPc = "start"
    /\ metricsOut' = _extract_metrics(rawIdea)
    /\ normPc' = "done"
    /\ UNCHANGED <<rawIdea, ctorVars, searchVars, sumVars, appVars>>

NextMetrics == ExtractMetrics

SpecMetrics == InitMetrics /\ [][NextMetrics]_vars

ZeroUsd == [units |-> 0, micros |-> 0]
Unset(v) == v.tag = "none" \/ v.tag = "absent"

\* C8: _extract_metrics maps a missing, null or zero avg_monthly_searches to 0,
\* a missing or unset (UNSPECIFIED) competition to "UNKNOWN", a missing
\* competition_index to 0.0 and missing bid micros to 0.0; search_volume and
\* both bids are never negative for non-negative inputs, and a bid of
\* k * 1,000,000 micros converts to exactly k.
C8_MetricsDefaults ==
    normPc = "done" =>
        /\ metricsOut.keyword = rawIdea.text
        /\ (Unset(rawIdea.avg_monthly_searches) \/ rawIdea.avg_monthly_searches.val = 0)
               => metricsOut.search_volume = 0
        /\ (Unset(rawIdea.competition) \/ rawIdea.competition.val = 0)
               => metricsOut.competition = "UNKNOWN"
        /\ Unset(rawIdea.competition_index) => metricsOut.competition_index = 0
        /\ Unset(rawIdea.low_top_of_page_bid_micros) => metricsOut.low_bid_usd = ZeroUsd
        /\ Unset(rawIdea.high_top_of_page_bid_micros) => metricsOut.high_bid_usd = ZeroUsd
        /\ metricsOut.search_volume >= 0
        /\ metricsOut.low_bid_usd.units >= 0 /\ metricsOut.low_bid_usd.micros >= 0
        /\ metricsOut.high_bid_usd.units >= 0 /\ metricsOut.high_bid_usd.micros >= 0
        /\ \A k \in 0..MaxWholeBid :
               /\ rawIdea.low_top_of_page_bid_micros = PyInt(k * 1000000)
                      => metricsOut.low_bid_usd = [units |-> k, micros |-> 0]
               /\ rawIdea.high_top_of_page_bid_micros = PyInt(k * 1000000)
                      => metricsOut.high_bid_usd = [units |-> k, micros |-> 0]

\* a record with every default taken and a whole-dollar low bid, normalized
C8_Witness ==
    /\ normPc = "done"
    /\ rawIdea.avg_monthly_searches = PyNone
    /\ rawIdea.competition = PyInt(0)
    /\ rawIdea.competition_index = PyAbsent
    /\ rawIdea.high_top_of_page_bid_micros = PyNone
    /\ rawIdea.low_top_of_page_bid_micros = PyInt(2000000)
    /\ metricsOut.low_bid_usd = [units |-> 2, micros |-> 0]
    /\ metricsOut.competition = "UNKNOWN"

(* ======================= SpecSearch: search_keywords ================== *)
TextUK == <<"u","k">>
TextUnitedKingdom == <<"u","n","i","t","e","d"," ","k","i","n","g","d","o","m">>
TextCanada == <<"c","a","n","a","d","a">>
TextUnitedStates == <<"u","n","i","t","e","d"," ","s","t","a","t","e","s">>

\* the location strings explored: the four options of the dashboard's select
\* box, the script's argument, other spellings of them, and unknown values
Locations ==
    {<<"U","n","i","t","e","d"," ","S","t","a","t","e","s">>,
     TextUnitedStates,
     <<"U","N","I","T","E","D"," ","S","T","A","T","E","S">>,
     <<"U","n","i","t","e","d"," ","K","i","n","g","d","o","m">>,
     TextUnitedKingdom,
     <<"U","K">>, <<"U","k">>, TextUK,
     <<"C","a","n","a","d","a">>, <<"C","A","N","A","D","A">>, TextCanada,
     <<"I","n","d","i","a">>,
     <<"u","k"," ">>,
     <<>>}

\* location.lower() in [...], as written
ResolveCaseSensitive(loc) ==
    IF loc \in {TextUK, TextUnitedKingdom} THEN "2826"
    ELSE IF loc \in {TextCanada} THEN "2124"
    ELSE "2840"

\* lines 99-103: the geo id of a location
ResolveLocationId(loc) ==
    IF StrLower(loc) \in {TextUK, TextUnitedKingdom} THEN "2826"
    ELSE IF StrLower(loc) \in {TextCanada} THEN "2124"
    ELSE "2840"

\* GoogleAdsService.geo_target_constant_path(id)
GeoTargetConstantPath(id) == <<"geoTargetConstants", id>>

\* GoogleAdsService.language_constant_path("1000")
LanguageConstantPath == <<"languageConstants", "1000">>

LoopBreakAfter(i, cap) == i > cap

\* line 114: `if i >= max_results: break`
LoopBreak(i, cap) == i >= cap

InitSearch ==
    /\ CtorAtRest /\ NormAtRest /\ SumAtRest /\ AppAtRest
    /\ location \in Locations
    /\ max_results \in 1..MaxCap
    /\ include_adult_keywords \in BOOLEAN
    /\ ideas \in SeqsUpTo(IdeaPool, MaxIdeas)
    /\ pc = "start"
    /\ request = NoRequest
    /\ calls = 0 /\ pulled = 0 /\ results = <<>>
    /\ excKind = "none" /\ ret = NoReturn /\ raised = "none"

searchInputs == <<location, max_results, include_adult_keywords, ideas>>

\* lines 95-110: the request is built; no remote call is made yet
BuildRequest ==
    /\ pc = "start"
    /\ request' = [customer_id |-> kr.customer_id,
                   language |-> LanguageConstantPath,
                   geo_target_constants |->
                       Append(NoRequest.geo_target_constants,
                              GeoTargetConstantPath(ResolveLocationId(location))),
                   keyword_plan_network |-> "GOOGLE_SEARCH",
                   keywords |-> <<"python programming">>,
                   include_adult_keywords |-> include_adult_keywords]
    /\ pc' = "request_built"
    /\ UNCHANGED <<searchInputs, calls, pulled, results, excKind, ret, raised,
                   ctorVars, normVars, sumVars, appVars>>

\* lines 111-112: the one remote call; it answers with a lazy sequence, or
\* raises GoogleAdsException or another exception
GenerateKeywordIdeas ==
    /\ pc = "request_built"
    /\ calls' = calls + 1
    /\ \E outcome \in {"ok", "GoogleAdsException", "Exception"} :
          IF outcome = "ok"
          THEN pc' = "iterating" /\ results' = <<>> /\ excKind' = excKind
          ELSE pc' = "except" /\ results' = results /\ excKind' = outcome
    /\ UNCHANGED <<searchInputs, request, pulled, ret, raised,
                   ctorVars, normVars, sumVars, appVars>>

\* lines 113-117: one turn of `for i, idea in enumerate(ideas)`: the next
\* element is requested from the lazy sequence (which may fail, or be
\* exhausted), then the cap is tested, then the element is normalized
LoopTurn ==
    /\ pc = "iterating"
    /\ \E outcome \in {"ok", "GoogleAdsException", "Exception"} :
          IF outcome # "ok"
          THEN /\ pc' = "except" /\ excKind' = outcome
               /\ UNCHANGED <<pulled, results>>
          ELSE IF pulled = Len(ideas)
          THEN /\ pc' = "loop_done"
               /\ UNCHANGED <<pulled, results, excKind>>
          ELSE /\ pulled' = pulled + 1
               /\ excKind' = excKind
               /\ IF LoopBreak(pulled, max_results)
                  THEN pc' = "loop_done" /\ results' = results
                  ELSE /\ pc' = "iterating"
                       /\ results' = Append(results, _extract_metrics(ideas[pulled + 1]))
    /\ UNCHANGED <<searchInputs, request, calls, ret, raised,
                   ctorVars, normVars, sumVars, appVars>>

\* lines 118-119: return results
ReturnResults ==
    /\ pc = "loop_done"
    /\ ret' = [returned |-> TRUE, value |-> results]
    /\ pc' = "returned"
    /\ UNCHANGED <<searchInputs, request, calls, pulled, results, excKind, raised,
                   ctorVars, normVars, sumVars, appVars>>

ExceptGoogleAdsRetry ==
    /\ pc = "except" /\ excKind = "GoogleAdsException"
    /\ calls < 3
    /\ pc' = "request_built"
    /\ UNCHANGED <<searchInputs, request, calls, pulled, results, excKind, ret,
                   raised, ctorVars, normVars, sumVars, appVars>>

\* lines 120-125: except GoogleAdsException: log, raise
ExceptGoogleAds ==
    /\ pc = "except" /\ excKind = "GoogleAdsException"
    /\ raised' = excKind
    /\ pc' = "raised"
    /\ UNCHANGED <<searchInputs, request, calls, pulled, results, excKind, ret,
                   ctorVars, normVars, sumVars, appVars>>

ExceptOtherSalvage ==
    /\ pc = "except" /\ excKind = "Exception"
    /\ ret' = [returned |-> TRUE, value |-> results]
    /\ pc' = "returned"
    /\ UNCHANGED <<searchInputs, request, calls, pulled, results, excKind, raised,
                   ctorVars, normVars, sumVars, appVars>>

\* lines 126-128: except Exception: log, raise
ExceptOther ==
    /\ pc = "except" /\ excKind = "Exception"
    /\ raised' = excKind
    /\ pc' = "raised"
    /\ UNCHANGED <<searchInputs, request, calls, pulled, results, excKind, ret,
                   ctorVars, normVars, sumVars, appVars>>

NextSearch ==
    \/ BuildRequest
    \/ GenerateKeywordIdeas
    \/ LoopTurn
    \/ ReturnResults
    \/ ExceptGoogleAds
    \/ ExceptOther

SpecSearch == InitSearch /\ [][NextSearch]_vars

Min(a, b) == IF a <= b THEN a ELSE b

\* C1: a successful search_keywords returns exactly the first
\* min(max_results, |ideas|) ideas of the remote sequence, each normalized,
\* in the order the remote service gave them.
C1_FirstMinInOrder ==
    pc = "returned" =>
        /\ ret.returned
        /\ Len(ret.value) = Min(max_results, Len(ideas))
        /\ \A k \in 1..Len(ret.value) : ret.value[k] = _extract_metrics(ideas[k])

\* a remote sequence longer than the cap, of different ideas, cut at the cap
C1_Witness ==
    /\ pc = "returned"
    /\ Len(ideas) > max_results
    /\ max_results = 2
    /\ ideas[1] # ideas[2]
    /\ Len(ret.value) = 2
    /\ ret.value[1].keyword = ideas[1].text /\ ret.value[2].keyword = ideas[2].text

\* C2 as stated: when the remote sequence is longer than max_results, the
\* number of elements pulled from it is exactly max_results; no element
\* beyond the cap is ever requested.
C2_PulledExactlyCap ==
    /\ pulled <= max_results
    /\ (pc = "returned" /\ Len(ideas) > max_results) => pulled = max_results

\* C2 amended: at most max_results elements are normalized and at most
\* max_results + 1 are pulled; a search that returns from a remote sequence
\* longer than max_results has normalized exactly max_results elements and
\* pulled exactly max_results + 1 (the element at index max_results is
\* requested, then dropped by the break).
C2_PulledCapPlusOne ==
    /\ pulled <= max_results + 1
    /\ Len(results) <= max_results
    /\ (pc = "returned" /\ Len(ideas) > max_results) =>
           /\ pulled = max_results + 1
           /\ Len(ret.value) = max_results

\* a remote sequence with at least two elements beyond the cap
C2_Witness ==
    /\ pc = "returned"
    /\ Len(ideas) >= max_results + 2
    /\ pulled = max_results + 1
    /\ Len(ret.value) = max_results

\* two texts equal up to the case of their letters
SameIgnoringCase(s, t) ==
    /\ Len(s) = Len(t)
    /\ \A i \in 1..Len(s) :
          \/ s[i] = t[i]
          \/ \E j \in 1..26 : {s[i], t[i]} = {UpperLetters[j], LowerLetters[j]}

\* C3: the geo id is 2826 for "uk" and "united kingdom", 2124 for "canada",
\* in any letter case, and 2840 for "united states" and for every other
\* string (the empty string and "India" included); exactly one geo target
\* is attached to the request.
C3_GeoResolution ==
    pc # "start" =>
        /\ Len(request.geo_target_constants) = 1
        /\ LET id == request.geo_target_constants[1][2]
           IN  /\ request.geo_target_constants[1][1] = "geoTargetConstants"
               /\ id \in {"2840", "2826", "2124"}
               /\ id = "2826" <=> (\/ SameIgnoringCase(location, TextUK)
                                   \/ SameIgnoringCase(location, TextUnitedKingdom))
               /\ id = "2124" <=> SameIgnoringCase(location, TextCanada)
               /\ SameIgnoringCase(location, TextUnitedStates) => id = "2840"
               /\ location = <<>> => id = "2840"
               /\ location = <<"I","n","d","i","a">> => id = "2840"

\* an upper-case "CANADA" resolved to the Canada id
C3_Witness ==
    /\ pc = "returned"
    /\ location = <<"C","A","N","A","D","A">>
    /\ request.geo_target_constants = <<GeoTargetConstantPath("2124")>>

C5_NoPartialResults ==
    /\ excKind # "none" => ret = NoReturn
    /\ pc = "raised" => (ret = NoReturn /\ raised # "none")

\* a failure in the middle of the iteration, after ideas were normalized
C5_Witness ==
    /\ pc = "raised"
    /\ Len(results) >= 1
    /\ pulled < Len(ideas)
    /\ ret = NoReturn

(* ================== SpecCtor: SimpleKeywordResearch() ================= *)
\* the values of the environment explored
CustomerIdValues ==
    {EnvUnset, EnvText(<<>>), EnvText(<<"-","-","-">>),
     EnvText(<<"1","2","-","3","4">>)}
LoginIdValues == {EnvUnset, EnvText(<<"9","-","9">>)}
RefreshTokenValues == {EnvUnset, EnvText(<<>>), EnvText(<<"t","o","k">>)}
TokenPathValues == {EnvUnset, EnvText(<<>>), EnvText(<<"c",".","j","s","o","n">>)}

\* the refresh token the consent flow hands back
FlowRefreshToken == <<"f","l","o","w">>

CustomerIdAsIs(e) == GetenvOrEmpty(e)

\* lines 41-42: os.getenv(X, "").replace('-', '')
CustomerIdOf(e) == StrRemove(GetenvOrEmpty(e), "-")

ArtifactMissingOnlyIfBoth(path, exists) == ~EnvTruthy(path) /\ ~exists

\* line 69: not token_path or not os.path.exists(token_path)
ArtifactMissing(path, exists) == ~EnvTruthy(path) \/ ~exists

\* lines 53-62 and 75-83: the dict given to load_from_dict
ConfigFor(token) ==
    [refresh_token |-> token,
     login_customer_id |-> IF EnvTruthy(env_login_customer_id)
                           THEN StrRemove(env_login_customer_id.s, "-") ELSE <<>>,
     has_login |-> EnvTruthy(env_login_customer_id)]

InitCtor ==
    /\ SearchAtRest /\ NormAtRest /\ SumAtRest /\ AppAtRest
    /\ env_customer_id \in CustomerIdValues
    /\ env_login_customer_id \in LoginIdValues
    /\ env_refresh_token \in RefreshTokenValues
    /\ env_token_path \in TokenPathValues
    /\ pathExists \in BOOLEAN
    /\ ctorPc = "start" /\ ctorErr = "none"
    /\ flowStarted = FALSE /\ loadCalls = 0
    /\ config = NoConfig /\ kr = NoObject

envVars == <<env_customer_id, env_login_customer_id, env_refresh_token,
             env_token_path, pathExists>>

\* lines 40, 49-65 and 67-70: __init__ enters _setup_client; with a refresh
\* token the config is built, without one _authenticate_oauth looks for the
\* consent artifact and raises FileNotFoundError when it is not there
SetupClient ==
    /\ ctorPc = "start"
    /\ IF EnvTruthy(env_refresh_token)
       THEN /\ config' = ConfigFor(env_refresh_token.s)
            /\ ctorPc' = "load" /\ ctorErr' = ctorErr
       ELSE IF ArtifactMissing(env_token_path, pathExists)
       THEN /\ ctorPc' = "raised" /\ ctorErr' = "FileNotFoundError"
            /\ config' = config
       ELSE /\ ctorPc' = "flow" /\ ctorErr' = ctorErr /\ config' = config
    /\ UNCHANGED <<envVars, flowStarted, loadCalls, kr, searchVars, normVars, sumVars, appVars>>

\* lines 71-83: the interactive consent flow; it hands back a refresh token
\* or fails (unreadable artifact, consent refused)
RunConsentFlow ==
    /\ ctorPc = "flow"
    /\ flowStarted' = TRUE
    /\ \E ok \in BOOLEAN :
          IF ok
          THEN /\ config' = ConfigFor(FlowRefreshToken)
               /\ ctorPc' = "load" /\ ctorErr' = ctorErr
          ELSE /\ ctorPc' = "raised" /\ ctorErr' = "FlowError"
               /\ config' = config
    /\ UNCHANGED <<envVars, loadCalls, kr, searchVars, normVars, sumVars, appVars>>

\* lines 63 and 84: GoogleAdsClient.load_from_dict(config) builds the handle
\* or rejects the config
LoadFromDict ==
    /\ ctorPc = "load"
    /\ loadCalls' = loadCalls + 1
    /\ \E ok \in BOOLEAN :
          IF ok
          THEN /\ kr' = [kr EXCEPT !.client = "handle"]
               /\ ctorPc' = "check_id" /\ ctorErr' = ctorErr
          ELSE /\ ctorPc' = "raised" /\ ctorErr' = "LoadError"
               /\ kr' = kr
    /\ UNCHANGED <<envVars, flowStarted, config, searchVars, normVars, sumVars, appVars>>

\* lines 41-47: the customer ids are read and the target id is required
CheckCustomerId ==
    /\ ctorPc = "check_id"
    /\ kr' = [kr EXCEPT !.customer_id = CustomerIdOf(env_customer_id),
                        !.login_customer_id = CustomerIdOf(env_login_customer_id)]
    /\ IF CustomerIdOf(env_customer_id) = <<>>
       THEN ctorPc' = "raised" /\ ctorErr' = "ValueError"
       ELSE ctorPc' = "done" /\ ctorErr' = ctorErr
    /\ UNCHANGED <<envVars, flowStarted, loadCalls, config, searchVars, normVars,
                   sumVars, appVars>>

NextCtor ==
    \/ SetupClient
    \/ RunConsentFlow
    \/ LoadFromDict
    \/ CheckCustomerId

SpecCtor == InitCtor /\ [][NextCtor]_vars

\* the target customer id is missing, empty or made of dashes only
NoCustomerId ==
    \/ env_customer_id.isNone
    \/ \A i \in 1..Len(env_customer_id.s) : env_customer_id.s[i] = "-"

NoRefreshToken == env_refresh_token.isNone \/ env_refresh_token.s = <<>>
NoArtifact == env_token_path.isNone \/ env_token_path.s = <<>> \/ ~pathExists

\* C6 as stated: without a customer id the construction fails with
\* ValueError, whatever the refresh token and the consent artifact are.
C6_AlwaysValueError ==
    (NoCustomerId /\ ctorPc \in {"done", "raised"}) => ctorErr = "ValueError"

\* C6 amended: without a customer id the construction never succeeds; it
\* fails with ValueError exactly when _setup_client returned a client, and
\* with the error of _setup_client otherwise: FileNotFoundError when there
\* is neither a refresh token nor a consent artifact.
C6_NeverConstructed ==
    NoCustomerId =>
        /\ ctorPc # "done"
        /\ ctorPc = "raised" =>
              /\ ctorErr \in {"ValueError", "FileNotFoundError", "FlowError", "LoadError"}
              /\ ctorErr = "ValueError" <=> kr.client = "handle"
              /\ (NoRefreshToken /\ NoArtifact) => ctorErr = "FileNotFoundError"

\* a customer id of dashes only, rejected after the client was set up
C6_Witness ==
    /\ env_customer_id = EnvText(<<"-","-","-">>)
    /\ ctorPc = "raised"
    /\ ctorErr = "ValueError"
    /\ kr.client = "handle"

\* C7: without a refresh token and without a consent artifact (path unset,
\* empty or not on disk) authentication fails with FileNotFoundError before
\* the consent flow starts and before a handle is built; with a refresh
\* token the consent flow is never started.
C7_CredentialError ==
    /\ (NoRefreshToken /\ NoArtifact) =>
           /\ ~flowStarted /\ loadCalls = 0 /\ kr.client = "none"
           /\ ctorPc \in {"start", "raised"}
           /\ ctorPc = "raised" => ctorErr = "FileNotFoundError"
    /\ ~NoRefreshToken => ~flowStarted

\* a path that is set but not on disk, and an empty refresh token
C7_Witness ==
    /\ env_refresh_token = EnvText(<<>>)
    /\ ~env_token_path.isNone /\ env_token_path.s # <<>> /\ ~pathExists
    /\ ctorPc = "raised"
    /\ ctorErr = "FileNotFoundError"

(* ===================== SpecSummary: print_summary ===================== *)
\* line 165: r.search_volume > 1000
HighVolumeThreshold == 1000
\* line 172: [:3]
TopCount == 3

\* the fields of KeywordMetrics that print_summary reads; the i-th record
\* of an input carries the keyword ToString(i), as the remote service does
\* not repeat a keyword within one answer
SummaryVolumes == {500, 1000, 2000}
SummaryCompetitions == {"LOW", "HIGH"}
SummaryInputs ==
    UNION {{[i \in 1..n |-> [keyword |-> ToString(i),
                             search_volume |-> v[i],
                             competition |-> c[i]]] :
               v \in [1..n -> SummaryVolumes], c \in [1..n -> SummaryCompetitions]} :
           n \in 0..MaxSummary}

\* one logger call
LogLine(level, msg, n) ==
    [level |-> level, msg |-> msg, n |-> n, keyword |-> "", competition |-> ""]
TopLine(kw) ==
    [level |-> "info", msg |-> "top", n |-> kw.search_volume,
     keyword |-> kw.keyword, competition |-> kw.competition]

RECURSIVE SumOf(_)
\* sum(volumes)
SumOf(xs) == IF xs = <<>> THEN 0 ELSE Head(xs) + SumOf(Tail(xs))

\* f"{total / count:,.0f}": the quotient rounded to the nearest integer,
\* a tie to the even one
FormatMean(total, count) ==
    LET q == total \div count
        r == total % count
    IN  IF 2 * r < count THEN q
        ELSE IF 2 * r > count THEN q + 1
        ELSE IF q % 2 = 0 THEN q ELSE q + 1

NeverEmpty(rs) == FALSE

\* line 161: `not results`
IsEmptyResults(rs) == rs = <<>>

StaysBeforeStrict(a, x) == a.search_volume > x.search_volume

\* sorted(key=search_volume, reverse=True) keeps a record before a later
\* record of the input unless the later one has a larger volume
StaysBefore(a, x) == a.search_volume >= x.search_volume

RECURSIVE InsertDesc(_, _)
\* x, which follows every record of s in the input, put in its place
InsertDesc(s, x) ==
    IF s = <<>> THEN <<x>>
    ELSE IF StaysBefore(Head(s), x) THEN <<Head(s)>> \o InsertDesc(Tail(s), x)
    ELSE <<x>> \o s

RECURSIVE SortedByVolumeDesc(_)
\* line 172: sorted(results, key=lambda x: x.search_volume, reverse=True)
SortedByVolumeDesc(rs) ==
    IF rs = <<>> THEN <<>>
    ELSE InsertDesc(SortedByVolumeDesc(SubSeq(rs, 1, Len(rs) - 1)), rs[Len(rs)])

\* line 172: [...][:3]
TopKeywords(rs) ==
    LET sorted == SortedByVolumeDesc(rs)
    IN  SubSeq(sorted, 1, Min(TopCount, Len(sorted)))

InitSummary ==
    /\ CtorAtRest /\ SearchAtRest /\ NormAtRest /\ AppAtRest
    /\ sumInput \in SummaryInputs
    /\ sumLog = <<>> /\ sumPc = "start" /\ sumErr = "none"

\* lines 160-175: the whole of print_summary
PrintSummary ==
    /\ sumPc = "start"
    /\ LET volumes == [i \in 1..Len(sumInput) |-> sumInput[i].search_volume]
           high_vol == SelectSeq(sumInput,
                           LAMBDA r : r.search_volume > HighVolumeThreshold)
           low_comp == SelectSeq(sumInput, LAMBDA r : r.competition = "LOW")
           top_keywords == TopKeywords(sumInput)
           opening == <<LogLine("info", "summary", 0),
                        LogLine("info", "total", Len(sumInput))>>
       IN  IF IsEmptyResults(sumInput)
           THEN /\ sumLog' = <<LogLine("warning", "no_results", 0)>>
                /\ sumErr' = "none"
           ELSE IF Len(volumes) = 0
           THEN /\ sumLog' = opening
                /\ sumErr' = "ZeroDivisionError"
           ELSE /\ sumLog' = opening
                       \o <<LogLine("info", "avg", FormatMean(SumOf(volumes), Len(volumes))),
                            LogLine("info", "high_vol", Len(high_vol)),
                            LogLine("info", "low_comp", Len(low_comp)),
                            LogLine("info", "top_header", 0)>>
                       \o [j \in 1..Len(top_keywords) |-> TopLine(top_keywords[j])]
                /\ sumErr' = "none"
    /\ sumPc' = "done"
    /\ UNCHANGED <<sumInput, ctorVars, searchVars, normVars, appVars>>

NextSummary == PrintSummary

SpecSummary == InitSummary /\ [][NextSummary]_vars

\* the logger calls of one kind
Logged(msg) == SelectSeq(sumLog, LAMBDA l : l.msg = msg)

\* C9 as stated: on an empty list print_summary raises no division error
\* and reports zero counts: total 0, high volume 0, low competition 0.
C9_ReportsZeroCounts ==
    (sumPc = "done" /\ sumInput = <<>>) =>
        /\ sumErr = "none"
        /\ Logged("total") = <<LogLine("info", "total", 0)>>
        /\ Logged("high_vol") = <<LogLine("info", "high_vol", 0)>>
        /\ Logged("low_comp") = <<LogLine("info", "low_comp", 0)>>

\* C9 amended: on an empty list print_summary raises no division error and
\* reports no count at all: its only output is the warning that there is
\* nothing to summarize.
C9_NoResultsSignal ==
    (sumPc = "done" /\ sumInput = <<>>) =>
        /\ sumErr = "none"
        /\ sumLog = <<LogLine("warning", "no_results", 0)>>

\* the empty list, summarized
C9_Witness ==
    /\ sumPc = "done"
    /\ sumInput = <<>>
    /\ Len(sumLog) = 1 /\ sumLog[1].level = "warning"

\* record a of the input comes before record b in the ranking: a larger
\* volume, or the same volume and an earlier place in the input
RanksBefore(a, b) ==
    \/ sumInput[a].search_volume > sumInput[b].search_volume
    \/ sumInput[a].search_volume = sumInput[b].search_volume /\ a < b

\* C10: the top keywords logged are the first min(3, n) records of the
\* input ranked by search_volume descending, records of equal volume in
\* their input order: so of more than 3 tied records the earliest are taken.
C10_StableTop3 ==
    (sumPc = "done" /\ sumInput # <<>>) =>
        LET top == Logged("top")
            n == Len(sumInput)
        IN  /\ sumErr = "none"
            /\ Len(top) = Min(3, n)
            /\ \E f \in [1..Len(top) -> 1..n] :
                  /\ \A j \in 1..Len(top) : top[j] = TopLine(sumInput[f[j]])
                  /\ \A j, k \in 1..Len(top) : j < k => RanksBefore(f[j], f[k])
                  /\ \A m \in 1..n :
                        (\A j \in 1..Len(top) : f[j] # m)
                            => \A j \in 1..Len(top) : RanksBefore(f[j], m)

\* four records of one volume: the first three are logged, in input order
C10_Witness ==
    /\ sumPc = "done"
    /\ Len(sumInput) = 4
    /\ \A i \in 1..4 : sumInput[i].search_volume = 1000
    /\ Len(Logged("top")) = 3
    /\ \A j \in 1..3 : Logged("top")[j].keyword = sumInput[j].keyword

(* ======================== SpecExport: save_results ==================== *)
\* resolution of the modelled clock: ticks in one second
TicksPerSecond == 2
\* last tick of the clock explored
MaxClock == 4
\* most save_results calls in one run explored
MaxExports == 3

\* datetime.now().strftime("%Y%m%d_%H%M%S"): the date and the time of day
\* down to the second; what is below one second is dropped
Strftime(t) ==
    LET s == t \div TicksPerSecond
    IN  [date |-> s \div 86400, H |-> (s % 86400) \div 3600,
         M |-> (s % 3600) \div 60, S |-> s % 60]

\* lines 148-153: format.lower() == "csv" picks the extension, else json
ExtensionOf(format) ==
    IF StrLower(format) = <<"c","s","v">> THEN "csv" ELSE "json"

\* lines 149 and 153: f"keywords_{timestamp}.{ext}"
FilenameOf(timestamp, ext) == <<"keywords_", timestamp, ext>>

\* lines 150-151 and 155-156: the rows written, one per result
Serialized(rs, ext) == [kind |-> ext, rows |-> rs]

\* to_csv(filename) and open(filename, 'w'): the file is created or replaced
WriteFile(fs, name, content) ==
    {f \in fs : f.name # name} \cup {[name |-> name, content |-> content]}

\* the format arguments and result lists explored
ExportFormats == {<<"c","s","v">>, <<"C","S","V">>, <<"j","s","o","n">>}
ExportLists ==
    {<<_extract_metrics(RawIdea("kw1", PyInt(500), PyInt(2), PyInt(10),
                                PyInt(500000), PyInt(MicrosPerUnit)))>>,
     <<_extract_metrics(RawIdea("kw2", PyInt(2000), PyInt(4), PyInt(90),
                                PyInt(MicrosPerUnit), PyInt(MicrosPerUnit)))>>}

InitExport ==
    /\ CtorAtRest /\ SearchAtRest /\ NormAtRest /\ SumAtRest
    /\ MainAtRest /\ DashAtRest
    /\ clock = 0 /\ files = {} /\ exportLog = <<>>

\* time passes
Tick ==
    /\ clock < MaxClock
    /\ clock' = clock + 1
    /\ UNCHANGED <<files, exportLog, ctorVars, searchVars, normVars, sumVars,
                   mainVars, dashVars>>

\* lines 146-158: the whole of save_results
SaveResults ==
    /\ Len(exportLog) < MaxExports
    /\ \E rs \in ExportLists, format \in ExportFormats :
          LET ext == ExtensionOf(format)
              filename == FilenameOf(Strftime(clock), ext)
          IN  /\ files' = WriteFile(files, filename, Serialized(rs, ext))
              /\ exportLog' = Append(exportLog,
                                     [format |-> format, filename |-> filename,
                                      rows |-> rs])
    /\ UNCHANGED <<clock, ctorVars, searchVars, normVars, sumVars, mainVars,
                   dashVars>>

NextExport ==
    \/ Tick
    \/ SaveResults

SpecExport == InitExport /\ [][NextExport]_vars

\* C11: over any sequence of save_results calls in one run, no two calls of
\* the same format write to the same filename, so the file of an earlier
\* export is still on disk, with its rows, after every later export.
C11_NoCollision ==
    \A i, j \in 1..Len(exportLog) :
        (i < j /\ exportLog[i].format = exportLog[j].format) =>
            /\ exportLog[i].filename # exportLog[j].filename
            /\ [name |-> exportLog[i].filename,
                content |-> Serialized(exportLog[i].rows,
                                       ExtensionOf(exportLog[i].format))] \in files

(* ===================== SpecMain: the script's main() ================== *)
\* line 186: max_results=100
MainMaxResults == 100

\* one logger call of main()
MainLine(level, msg, detail) == [level |-> level, msg |-> msg, detail |-> detail]

\* line 179, then line 180 enters SimpleKeywordResearch()
InitMain ==
    /\ SearchAtRest /\ NormAtRest /\ SumAtRest /\ ExportAtRest /\ DashAtRest
    /\ env_customer_id \in CustomerIdValues
    /\ env_login_customer_id \in LoginIdValues
    /\ env_refresh_token \in RefreshTokenValues
    /\ env_token_path \in TokenPathValues
    /\ pathExists \in BOOLEAN
    /\ ctorPc = "start" /\ ctorErr = "none"
    /\ flowStarted = FALSE /\ loadCalls = 0
    /\ config = NoConfig /\ kr = NoObject
    /\ mainPc = "constructing"
    /\ mainLog = <<MainLine("info", "starting", "none")>>
    /\ mainExit = "running"

\* lines 181-188: the object is built; search_keywords is entered with the
\* script's arguments, and the remote service will answer with some sequence
MainCallSearch ==
    /\ mainPc = "constructing" /\ ctorPc = "done"
    /\ mainPc' = "searching"
    /\ mainLog' = Append(mainLog, MainLine("info", "testing", "none"))
    /\ location' = <<"U","n","i","t","e","d"," ","S","t","a","t","e","s">>
    /\ max_results' = MainMaxResults
    /\ include_adult_keywords' = FALSE
    /\ ideas' \in SeqsUpTo(IdeaPool, MaxIdeas)
    /\ pc' = "start"
    /\ UNCHANGED <<request, calls, pulled, results, excKind, ret, raised, mainExit,
                   ctorVars, normVars, sumVars, exportVars, dashVars>>

\* line 189: print_summary is entered with the list returned
MainCallSummary ==
    /\ mainPc = "searching" /\ pc = "returned"
    /\ mainPc' = "summarizing"
    /\ sumInput' = ret.value
    /\ sumPc' = "start"
    /\ UNCHANGED <<sumLog, sumErr, mainLog, mainExit, ctorVars, searchVars, normVars,
                   exportVars, dashVars>>

\* line 190: `if results:`
HasResults(rs) == rs # <<>>

\* lines 190 and 193: after the summary, either the export is entered or
\* main() is done
MainAfterSummary ==
    /\ mainPc = "summarizing" /\ sumPc = "done" /\ sumErr = "none"
    /\ IF HasResults(ret.value)
       THEN /\ mainPc' = "exporting"
            /\ UNCHANGED <<mainLog, mainExit>>
       ELSE /\ mainPc' = "returned"
            /\ mainLog' = Append(mainLog, MainLine("info", "completed", "none"))
            /\ mainExit' = "returned"
    /\ UNCHANGED <<ctorVars, searchVars, normVars, sumVars, exportVars, dashVars>>

\* lines 191-193: save_results(results, format="csv"); the write succeeds,
\* or fails before the file is created, or fails with the file left empty
MainSaveResults ==
    /\ mainPc = "exporting"
    /\ LET ext == ExtensionOf(<<"c","s","v">>)
           filename == FilenameOf(Strftime(clock), ext)
       IN  /\ exportLog' = Append(exportLog,
                                  [format |-> <<"c","s","v">>, filename |-> filename,
                                   rows |-> ret.value])
           /\ \E outcome \in {"ok", "IoError_open", "IoError_write"} :
                 IF outcome = "ok"
                 THEN /\ files' = WriteFile(files, filename, Serialized(ret.value, ext))
                      /\ mainPc' = "returned"
                      /\ mainLog' = mainLog \o <<MainLine("info", "success", "none"),
                                                 MainLine("info", "completed", "none")>>
                      /\ mainExit' = "returned"
                 ELSE /\ files' = IF outcome = "IoError_open" THEN files
                                  ELSE WriteFile(files, filename, Serialized(<<>>, ext))
                      /\ mainPc' = "export_raised"
                      /\ UNCHANGED <<mainLog, mainExit>>
    /\ UNCHANGED <<clock, ctorVars, searchVars, normVars, sumVars, dashVars>>

\* the exception that has left the call main() is waiting for, or "none"
MainPending ==
    IF mainPc = "constructing" /\ ctorPc = "raised" THEN ctorErr
    ELSE IF mainPc = "searching" /\ pc = "raised" THEN raised
    ELSE IF mainPc = "summarizing" /\ sumPc = "done" /\ sumErr # "none" THEN sumErr
    ELSE IF mainPc = "export_raised" THEN "IoError"
    ELSE "none"

MainCatchReraise ==
    /\ MainPending # "none"
    /\ mainPc' = "returned"
    /\ mainExit' = "raised"
    /\ UNCHANGED <<mainLog, ctorVars, searchVars, normVars, sumVars, exportVars,
                   dashVars>>

\* lines 194-195: except Exception as e: logger.error(...)
MainCatch ==
    /\ MainPending # "none"
    /\ mainLog' = Append(mainLog, MainLine("error", "application_error", MainPending))
    /\ mainPc' = "returned"
    /\ mainExit' = "returned"
    /\ UNCHANGED <<ctorVars, searchVars, normVars, sumVars, exportVars, dashVars>>

NextMain ==
    \/ SetupClient
    \/ RunConsentFlow
    \/ LoadFromDict
    \/ CheckCustomerId
    \/ MainCallSearch
    \/ BuildRequest
    \/ GenerateKeywordIdeas
    \/ LoopTurn
    \/ ReturnResults
    \/ ExceptGoogleAds
    \/ ExceptOther
    \/ MainCallSummary
    \/ PrintSummary
    \/ MainAfterSummary
    \/ MainSaveResults
    \/ MainCatch

SpecMain == InitMain /\ [][NextMain]_vars

\* an exception left the construction, the search or the summary
FailedBeforeExport == ctorPc = "raised" \/ pc = "raised" \/ sumErr # "none"

\* C13: main() catches every error raised by the construction, the search,
\* the summary or the export, logs it and returns normally; after a failure
\* before the export no file is written; the export is attempted only when
\* the search returned at least one result.
C13_MainCatchesAll ==
    /\ mainExit # "raised"
    /\ mainExit = "returned" => (mainPc = "returned" /\ MainPending = "none")
    /\ (mainExit = "returned" /\ (FailedBeforeExport \/ (exportLog # <<>> /\ files = {})))
           => mainLog[Len(mainLog)].level = "error"
    /\ (mainExit = "returned" /\ ctorPc = "raised")
           => mainLog[Len(mainLog)] = MainLine("error", "application_error", ctorErr)
    /\ (mainExit = "returned" /\ pc = "raised")
           => mainLog[Len(mainLog)] = MainLine("error", "application_error", raised)
    /\ FailedBeforeExport => (files = {} /\ exportLog = <<>>)
    /\ exportLog # <<>> => (pc = "returned" /\ Len(ret.value) >= 1 /\ Len(exportLog) = 1)
    /\ (mainExit = "returned" /\ pc = "returned" /\ ret.value = <<>>)
           => (files = {} /\ exportLog = <<>>
               /\ mainLog[Len(mainLog)] = MainLine("info", "completed", "none"))

\* a search that failed in the middle of the iteration, caught and logged,
\* with no file written
C13_Witness ==
    /\ mainExit = "returned"
    /\ pc = "raised" /\ raised = "GoogleAdsException" /\ Len(results) >= 1
    /\ mainLog[Len(mainLog)] = MainLine("error", "application_error", "GoogleAdsException")
    /\ files = {}

(* ================= SpecDash: the dashboard session ==================== *)
\* longest remote idea sequence a dashboard search is answered with
MaxDashIdeas == 2

\* SimpleKeywordResearch() as one call (seo.py lines 38-84): the error that
\* leaves it, or the object built; flowOk and loadOk are the outcomes of the
\* consent flow and of load_from_dict, were they to run
SimpleKeywordResearchCall(flowOk, loadOk) ==
    LET setup ==
            IF EnvTruthy(env_refresh_token)
            THEN (IF loadOk THEN "none" ELSE "LoadError")
            ELSE IF ArtifactMissing(env_token_path, pathExists) THEN "FileNotFoundError"
            ELSE IF ~flowOk THEN "FlowError"
            ELSE IF loadOk THEN "none" ELSE "LoadError"
    IN  IF setup # "none" THEN [err |-> setup, obj |-> NoObject]
        ELSE IF CustomerIdOf(env_customer_id) = <<>>
        THEN [err |-> "ValueError", obj |-> NoObject]
        ELSE [err |-> "none",
              obj |-> [client |-> "handle",
                       customer_id |-> CustomerIdOf(env_customer_id),
                       login_customer_id |-> CustomerIdOf(env_login_customer_id)]]

RECURSIVE Materialized(_, _, _)
\* seo.py lines 112-119: the list search_keywords returns when nothing fails
Materialized(seq, i, cap) ==
    IF i >= Len(seq) \/ LoopBreak(i, cap) THEN <<>>
    ELSE <<_extract_metrics(seq[i + 1])>> \o Materialized(seq, i + 1, cap)

AlwaysNone(k) == TRUE

\* line 71: st.session_state.kr_instance is None
KrIsNone(k) == k = NoObject

\* lines 68-79: initialize_keyword_research(), given what the constructor
\* would do: whether the API is ready, the handle kept, and whether one was built
InitializeKeywordResearch(k, built) ==
    IF KrIsNone(k)
    THEN IF built.err = "none"
         THEN [ready |-> TRUE, kr |-> built.obj, created |-> 1]
         ELSE [ready |-> FALSE, kr |-> k, created |-> 0]
    ELSE [ready |-> TRUE, kr |-> k, created |-> 0]

\* lines 234-247: every required variable is set and not empty
EnvironmentReady == env_other_required /\ EnvTruthy(env_customer_id)

\* lines 247-253: api_ready, and the handle after the sidebar has run
SidebarInit(flowOk, loadOk) ==
    IF EnvironmentReady
    THEN InitializeKeywordResearch(kr_instance, SimpleKeywordResearchCall(flowOk, loadOk))
    ELSE [ready |-> FALSE, kr |-> kr_instance, created |-> 0]

\* a line of the text area that k.strip() leaves empty
IsBlank(line) == \A i \in 1..Len(line) : line[i] = " "

\* line 300: [k.strip() for k in keywords_input.split('\n') if k.strip()]
SeedKeywords(lines) == SelectSeq(lines, LAMBDA l : ~IsBlank(l))

NotNone(r) == ~r.isNone

\* lines 331, 343 and 349: `if st.session_state.research_results:`
ResultsTruthy(r) == ~r.isNone /\ r.list # <<>>

ClearedOnFailure(old) == ResultsNone

\* lines 326-328: the except clause leaves research_results alone
AfterFailedSearch(old) == old

\* high_bid_usd > 0
BidPositive(r) == r.high_bid_usd.units > 0 \/ r.high_bid_usd.micros > 0

RECURSIVE SumHighBidMicros(_)
\* sum(r.high_bid_usd for r in valid_bids), in micros
SumHighBidMicros(rs) ==
    IF rs = <<>> THEN 0
    ELSE Head(rs).high_bid_usd.units * MicrosPerUnit + Head(rs).high_bid_usd.micros
             + SumHighBidMicros(Tail(rs))

\* lines 349-380: the results section: what is shown, the two averages
\* (the bid in cents, as f"${avg_bid:.2f}" shows it) and their divisors
ResultsSection(r) ==
    IF ~ResultsTruthy(r)
    THEN [shown |-> ResultsNone, avg_volume |-> NotComputed,
          avg_bid |-> NotComputed, error |-> "none"]
    ELSE LET rs == r.list
             volumes == [i \in 1..Len(rs) |-> rs[i].search_volume]
             valid_bids == SelectSeq(rs, BidPositive)
         IN  IF Len(rs) = 0
             THEN [shown |-> r,
                   avg_volume |-> [computed |-> TRUE, divisor |-> 0, value |-> 0],
                   avg_bid |-> NotComputed, error |-> "ZeroDivisionError"]
             ELSE [shown |-> r,
                   avg_volume |-> [computed |-> TRUE, divisor |-> Len(rs),
                                   value |-> FormatMean(SumOf(volumes), Len(rs))],
                   avg_bid |-> IF valid_bids # <<>>
                               THEN [computed |-> TRUE, divisor |-> Len(valid_bids),
                                     value |-> FormatMean(SumHighBidMicros(valid_bids),
                                                          Len(valid_bids) * 10000)]
                               ELSE NotComputed,
                   error |-> "none"]

\* the widget values explored: the text area, the slider, the remote answer
KeywordInputs == {<< <<"s","e","o">>, <<>> >>, << <<" ">>, <<>> >>}
SliderValues == {10, 200}

\* the outcomes of the consent flow and of load_from_dict, drawn where the
\* constructor is to run
ConstructorOutcomes == IF KrIsNone(kr_instance) THEN BOOLEAN ELSE {TRUE}

InitDash ==
    /\ SearchAtRest /\ NormAtRest /\ SumAtRest /\ ExportAtRest /\ MainAtRest
    /\ env_customer_id \in CustomerIdValues
    /\ env_login_customer_id \in LoginIdValues
    /\ env_refresh_token \in RefreshTokenValues
    /\ env_token_path \in TokenPathValues
    /\ pathExists \in BOOLEAN
    /\ ctorPc = "rest" /\ ctorErr = "none"
    /\ flowStarted = FALSE /\ loadCalls = 0
    /\ config = NoConfig /\ kr = NoObject
    /\ env_other_required \in BOOLEAN
    /\ research_results = ResultsNone
    /\ kr_instance = NoObject
    /\ created = 0
    /\ pendingRerun = TRUE
    /\ run = NoRun

\* one execution of the script (lines 215-461) with `click` the button that
\* was pressed: the sidebar, the search column, the download and clear
\* columns, then the results section
ScriptRun(click, lines, cap, seq, outcome, flowOk, loadOk) ==
    LET init == SidebarInit(flowOk, loadOk)
        base == [NoRun EXCEPT !.click = click, !.api_ready = init.ready]
        kws == SeedKeywords(lines)
        searching == click = "search" /\ kws # <<>>
        found == Materialized(seq, 0, cap)
        \* a call on None raises AttributeError inside the try block
        failed == searching /\ (outcome # "ok" \/ KrIsNone(init.kr))
        r1 == IF ~searching THEN research_results
              ELSE IF failed THEN AfterFailedSearch(research_results)
              ELSE ResultsList(found)
        searched == [base EXCEPT
                        !.search = IF ~searching THEN "not_called"
                                   ELSE IF failed THEN "raised" ELSE "returned",
                        !.searched_on = IF searching THEN init.kr ELSE NoObject,
                        !.returned = IF searching /\ ~failed THEN found ELSE <<>>]
        section == ResultsSection(r1)
    IN  /\ kr_instance' = init.kr
        /\ created' = created + init.created
        /\ IF ~init.ready
           THEN \* lines 289-291
                /\ research_results' = research_results
                /\ pendingRerun' = FALSE
                /\ run' = base
           ELSE IF click = "search" /\ kws = <<>>
           THEN \* lines 302-304
                /\ research_results' = research_results
                /\ pendingRerun' = FALSE
                /\ run' = [base EXCEPT !.buttons = {"search"}]
           ELSE IF click = "clear" /\ ResultsTruthy(r1)
           THEN \* lines 343-346
                /\ research_results' = ResultsNone
                /\ pendingRerun' = TRUE
                /\ run' = [base EXCEPT !.buttons = {"search", "download", "clear"}]
           ELSE /\ research_results' = r1
                /\ pendingRerun' = FALSE
                /\ run' = [searched EXCEPT
                              !.buttons = IF ResultsTruthy(r1)
                                          THEN {"search", "download", "clear"}
                                          ELSE {"search"},
                              !.shown = section.shown,
                              !.avg_volume = section.avg_volume,
                              !.avg_bid = section.avg_bid,
                              !.error = section.error]
    /\ UNCHANGED <<env_other_required, ctorVars, searchVars, normVars, sumVars,
                   exportVars, mainVars>>

\* the page is loaded, or run again after st.rerun(), with no button pressed
RerunPlain ==
    /\ pendingRerun
    /\ \E flowOk, loadOk \in ConstructorOutcomes :
          ScriptRun("none", << <<>> >>, 10, <<>>, "ok", flowOk, loadOk)

\* "Start Keyword Research" is pressed; the slider and the remote answer
\* are drawn where the search is made and returns
RerunSearch ==
    /\ ~pendingRerun /\ "search" \in run.buttons
    /\ \E lines \in KeywordInputs,
          outcome \in {"ok", "GoogleAdsException", "Exception"},
          flowOk, loadOk \in ConstructorOutcomes :
          \E cap \in (IF outcome = "ok" /\ SeedKeywords(lines) # <<>>
                       THEN SliderValues ELSE {10}),
             seq \in (IF outcome = "ok" /\ SeedKeywords(lines) # <<>>
                       THEN SeqsUpTo(IdeaPool, MaxDashIdeas) ELSE {<<>>}) :
             ScriptRun("search", lines, cap, seq, outcome, flowOk, loadOk)

\* "Download CSV" is pressed
RerunDownload ==
    /\ ~pendingRerun /\ "download" \in run.buttons
    /\ \E flowOk, loadOk \in ConstructorOutcomes :
          ScriptRun("download", << <<>> >>, 10, <<>>, "ok", flowOk, loadOk)

\* "Clear Results" is pressed
RerunClear ==
    /\ ~pendingRerun /\ "clear" \in run.buttons
    /\ \E flowOk, loadOk \in ConstructorOutcomes :
          ScriptRun("clear", << <<>> >>, 10, <<>>, "ok", flowOk, loadOk)

\* a widget is changed, or the page reloaded, with no button pressed
RerunWidget ==
    /\ ~pendingRerun
    /\ \E flowOk, loadOk \in ConstructorOutcomes :
          ScriptRun("none", << <<>> >>, 10, <<>>, "ok", flowOk, loadOk)

NextDash ==
    \/ RerunPlain
    \/ RerunSearch
    \/ RerunDownload
    \/ RerunClear
    \/ RerunWidget

SpecDash == InitDash /\ [][NextDash]_vars

\* C12: in one session the client handle is built at most once and then
\* kept unchanged by every later script run; a failed initialization leaves
\* kr_instance None; search_keywords is only ever invoked on the handle,
\* never on None.
C12_HandleCreatedOnce ==
    /\ [](/\ created <= 1
          /\ created = 1 <=> kr_instance # NoObject
          /\ run.search # "not_called" =>
                 (run.searched_on # NoObject /\ run.searched_on = kr_instance)
          /\ (EnvironmentReady /\ ~run.api_ready /\ run # NoRun) => kr_instance = NoObject)
    /\ [][kr_instance # NoObject => kr_instance' = kr_instance]_vars

\* a search that failed while results of an earlier search are stored: the
\* second search at least on the one handle of the session
C12_Witness ==
    /\ created = 1
    /\ run.search = "raised"
    /\ run.searched_on = kr_instance
    /\ ~research_results.isNone

\* C14: research_results changes only by a search that returned (to the
\* whole list returned) or by Clear Results (to None); a search that raised
\* leaves it as it was, and results stored before are displayed after it.
C14_ResultsFrame ==
    [][/\ research_results' # research_results =>
              \/ /\ run'.click = "search" /\ run'.search = "returned"
                 /\ research_results' = ResultsList(run'.returned)
              \/ /\ run'.click = "clear" /\ ResultsTruthy(research_results)
                 /\ research_results' = ResultsNone
       /\ run'.search = "returned" => research_results' = ResultsList(run'.returned)
       /\ run'.search = "raised" =>
              /\ research_results' = research_results
              /\ (~research_results.isNone /\ research_results.list # <<>>)
                     => run'.shown = research_results
      ]_vars

\* a failed search with the results of an earlier search still displayed
C14_Witness ==
    /\ run.click = "search" /\ run.search = "raised"
    /\ ~research_results.isNone /\ Len(research_results.list) = MaxDashIdeas
    /\ run.shown = research_results

\* C15: the averages are computed over non-empty collections only: the
\* results section is rendered only for a non-empty list (not after a search
\* that returned no idea, not after Clear Results), the average high bid
\* only when a result has a positive high bid; no division by zero occurs.
C15_NoDivisionByZero ==
    /\ run.error = "none"
    /\ run.avg_volume.computed =>
           /\ run.avg_volume.divisor >= 1
           /\ run.avg_volume.divisor = Len(research_results.list)
    /\ ~run.shown.isNone =>
           /\ ~research_results.isNone /\ Len(research_results.list) >= 1
           /\ run.shown = research_results
           /\ run.avg_volume.computed
    /\ (research_results.isNone \/ research_results.list = <<>>) =>
           (run.shown = ResultsNone /\ ~run.avg_volume.computed /\ ~run.avg_bid.computed)
    /\ run.avg_bid.computed =>
           /\ run.avg_bid.divisor >= 1
           /\ run.avg_bid.divisor =
                  Cardinality({i \in 1..Len(research_results.list) :
                                  research_results.list[i].high_bid_usd # ZeroUsd})
    /\ (~run.shown.isNone /\ ~run.avg_bid.computed) =>
           \A i \in 1..Len(research_results.list) :
               research_results.list[i].high_bid_usd = ZeroUsd

\* a search that returned no idea: an empty list is stored, nothing is shown
C15_Witness ==
    /\ run.search = "returned"
    /\ research_results = ResultsList(<<>>)
    /\ run.shown = ResultsNone
    /\ ~run.avg_volume.computed

\* results without any positive high bid: shown, the bid average not computed
C15_WitnessNoBids ==
    /\ ~run.shown.isNone
    /\ run.avg_volume.computed
    /\ ~run.avg_bid.computed

=============================================================================
